---- MODULE Spec2Model ----
(***************************************************************************)
(* Model of deej's serial link engine (package deej, type SerialIO).       *)
(*                                                                         *)
(* Two variants of the engine live in the repository:                      *)
(*   - pkg/deej/serial.go : binary frames, no handshake          (Spec)    *)
(*   - the line-mode variant with handshake + initialization     (SpecHS)  *)
(* Both share Start's prologue, Stop, close, the read loop and the         *)
(* configuration-reload supervisor.  SpecDecode runs the binary word       *)
(* decoder of handleBytes on every 16-bit word.  SpecTrack is the state    *)
(* tracker of handleBytes / handleLine on a running session, SpecBus the   *)
(* broadcast of its events to the subscribed consumers, SpecSup the        *)
(* supervisor's Stop()/Start() on configuration reloads.                   *)
(***************************************************************************)
EXTENDS Integers, Sequences, FiniteSets, TLC

\* ---------------------------------------------------------------- bounds
\* number of successful serial.Open calls explored (handles / sessions)
MaxOpens == 2
\* number of SubscribeToSliderMoveEvents calls explored
MaxSubs == 2
\* number of values in the frame the device has sent
MaxWords == 2

\* --------------------------------------------------------- program constants
handshakeTimeout == 5000
handshakeRetryInterval == 500
handshakeChar == 62
ackChar == 60

\* ---------------------------------------------------------------- universe
Tasks == {"app", "sup"}
Handles == 1..MaxOpens
NoConn == 0
\* two (port, baud) settings the configuration file may hold
Params == {"COM4@9600", "COM5@115200"}
ZeroOptions == "@0"
\* what a one-byte read of the remote can bring during the handshake
RemoteBytes == {handshakeChar, ackChar, 120}

VARIABLES
    pc,          \* position of each calling task (application, supervisor)
    result,      \* what the task's last Start() returned
    mine,        \* the handle the task's running Start() opened
    connected,   \* sio.connected
    conn,        \* sio.conn: the handle stored in the engine, NoConn = nil
    connOptions, \* sio.connOptions (port, baud), ZeroOptions before any Start
    config,      \* deej.config.ConnectionInfo
    openHandles, \* handles returned by serial.Open and not yet Close()d
    nOpened,     \* how many handles serial.Open has returned so far
    loopPc,      \* position of the read loop goroutine spawned by a Start
    loopConn,    \* the handle the loop's bufio reader wraps
    crash,       \* "none", or the runtime panic that ended the process
    hsPc,        \* position of the handshake goroutine started for a handle
    tickPending, \* that goroutine's retryTicker.C holds a tick
    elapsed,     \* per running Start(): time its performHandshake has waited
    buf,         \* ... buf[0] of its handshake goroutine, the last byte read
    ackWrites,   \* ... acknowledgement bytes its handshake goroutine wrote
    hsOutcome,   \* ... what its performHandshake returned
    initOk,      \* handshake and initialization both succeeded on the handle
    unit,        \* decoder: the unit handed to handleBytes
    data,        \* decoder: the readings handleBytes reconstructed
    variant,     \* "binary" (handleBytes) or "line" (handleLine)
    settings,    \* deej.config: InvertSliders, AdditiveIndices, noise level
    lastKnownNumSliders,  \* sio.lastKnownNumSliders
    currentVolumeDatas,   \* sio.currentVolumeDatas, values in hundredths
    sliderEvents,         \* the events of the frame handled last
    cand,        \* ... the final normalizedScalar of each of its channels
    vols,        \* ... what getCurrentVolume returned for each channel
    sliderMoveConsumers,  \* how many consumers are registered, in order
    bcast,       \* the send the broadcast loop is blocked on, or <<>>
    received,    \* per consumer: events of the current frame it received
    resetPending,         \* a delayed reset goroutine has yet to run
    resetSeen,   \* a delayed reset ran and no frame was handled in full since
    sent,        \* firmware: the values[] sendValues packed into the frame
    wire,        \* the bytes of the connection the frame reader has yet to read
    readerPc,    \* position of the frame reader goroutine (readBytes/readLine)
    chunk,       \* what its ReadBytes / ReadString returned last
    verbose      \* sio.deej.Verbose()

linkVars == <<pc, result, mine, connected, conn, connOptions, config,
              openHandles, nOpened, loopPc, loopConn, crash>>
hsVars == <<hsPc, tickPending, elapsed, buf, ackWrites, hsOutcome,
            initOk>>
decVars == <<unit, data>>
trackVars == <<variant, settings, lastKnownNumSliders, currentVolumeDatas,
               sliderEvents, cand, vols, resetSeen>>
busVars == <<sliderMoveConsumers, bcast, received>>
readVars == <<sent, wire, readerPc, chunk, verbose>>
vars == <<linkVars, hsVars, decVars, trackVars, busVars, resetPending,
          readVars>>

Alive == crash = "none"

\* a supervisor that calls Start() again whenever Start() has returned
AfterStartRetry(t) == IF t = "app" THEN "idle" ELSE "start_check"

\* where a task continues after Start() / Stop() return
AfterStart(t) == IF t = "app" THEN "idle" ELSE "watch"
AfterStop(t) == IF t = "app" THEN "idle" ELSE "start_check"
\* a task about to execute the first statement of Start() / Stop()
AtStart(t) == IF t = "app" THEN pc[t] = "idle" ELSE pc[t] = "start_check"
AtStop(t) == IF t = "app" THEN pc[t] = "idle" ELSE pc[t] = "stop_check"

InitLink ==
    /\ pc = [t \in Tasks |-> IF t = "app" THEN "idle" ELSE "watch"]
    /\ result = [t \in Tasks |-> "none"]
    /\ mine = [t \in Tasks |-> NoConn]
    /\ connected = FALSE
    /\ conn = NoConn
    /\ connOptions = ZeroOptions
    /\ config \in Params
    /\ openHandles = {}
    /\ nOpened = 0
    /\ loopPc = [h \in Handles |-> "none"]
    /\ loopConn = [h \in Handles |-> NoConn]
    /\ crash = "none"

InitHS ==
    /\ hsPc = [h \in Handles |-> "none"]
    /\ tickPending = [h \in Handles |-> FALSE]
    /\ elapsed = [t \in Tasks |-> 0]
    /\ buf = [t \in Tasks |-> 0]
    /\ ackWrites = [t \in Tasks |-> 0]
    /\ hsOutcome = [t \in Tasks |-> "none"]
    /\ initOk = [h \in Handles |-> FALSE]

InitDec ==
    /\ unit = <<>>
    /\ data = <<>>

\* ------------------------------------------------------------------ Start
\* a Start that skips the "already connected" test
StartCheckNoGuard(t) ==
    /\ Alive
    /\ AtStart(t)
    /\ pc' = [pc EXCEPT ![t] = "start_opts"]
    /\ UNCHANGED result
    /\ UNCHANGED <<mine, connected, conn, connOptions, config, openHandles,
                   nOpened, loopPc, loopConn, crash>>
    /\ UNCHANGED <<hsVars, decVars>>
    /\ UNCHANGED <<trackVars, busVars, resetPending, readVars>>

StartCheck(t) ==
    /\ Alive
    /\ AtStart(t)
    /\ IF connected
         THEN /\ pc' = [pc EXCEPT ![t] = AfterStart(t)]
              /\ result' = [result EXCEPT ![t] = "AlreadyConnected"]
         ELSE /\ pc' = [pc EXCEPT ![t] = "start_opts"]
              /\ UNCHANGED result
    /\ UNCHANGED <<mine, connected, conn, connOptions, config, openHandles,
                   nOpened, loopPc, loopConn, crash>>
    /\ UNCHANGED <<hsVars, decVars>>
    /\ UNCHANGED <<trackVars, busVars, resetPending, readVars>>

StartOptions(t) ==
    /\ Alive
    /\ pc[t] = "start_opts"
    /\ connOptions' = config
    /\ pc' = [pc EXCEPT ![t] = "start_open"]
    /\ UNCHANGED <<result, mine, connected, conn, config, openHandles,
                   nOpened, loopPc, loopConn, crash>>
    /\ UNCHANGED <<hsVars, decVars>>
    /\ UNCHANGED <<trackVars, busVars, resetPending, readVars>>

\* an open whose failure path marks the engine connected all the same
StartOpenFailConnected(t) ==
    /\ Alive
    /\ pc[t] = "start_open"
    /\ conn' = NoConn
    /\ connected' = TRUE
    /\ result' = [result EXCEPT ![t] = "OpenFailed"]
    /\ pc' = [pc EXCEPT ![t] = AfterStart(t)]
    /\ UNCHANGED <<mine, connOptions, config, openHandles, nOpened, loopPc,
                   loopConn, crash>>
    /\ UNCHANGED <<hsVars, decVars>>
    /\ UNCHANGED <<trackVars, busVars, resetPending, readVars>>

\* sio.conn, err = serial.Open(...) with err != nil: sio.conn becomes nil
StartOpenFail(t) ==
    /\ Alive
    /\ pc[t] = "start_open"
    /\ conn' = NoConn
    /\ result' = [result EXCEPT ![t] = "OpenFailed"]
    /\ pc' = [pc EXCEPT ![t] = AfterStart(t)]
    /\ UNCHANGED <<mine, connected, connOptions, config, openHandles, nOpened,
                   loopPc, loopConn, crash>>
    /\ UNCHANGED <<hsVars, decVars>>
    /\ UNCHANGED <<trackVars, busVars, resetPending, readVars>>

StartOpenOk(t) ==
    /\ Alive
    /\ pc[t] = "start_open"
    /\ nOpened < MaxOpens
    /\ nOpened' = nOpened + 1
    /\ conn' = nOpened + 1
    /\ mine' = [mine EXCEPT ![t] = nOpened + 1]
    /\ openHandles' = openHandles \cup {nOpened + 1}
    /\ pc' = [pc EXCEPT ![t] = "start_conn"]
    /\ UNCHANGED <<result, connected, connOptions, config, loopPc,
                   loopConn, crash>>
    /\ UNCHANGED <<hsVars, decVars>>
    /\ UNCHANGED <<trackVars, busVars, resetPending, readVars>>

\* binary variant: sio.connected = true, go func() {read loop}(), return nil
StartConnect(t) ==
    /\ Alive
    /\ pc[t] = "start_conn"
    /\ connected' = TRUE
    /\ loopPc' = [loopPc EXCEPT ![mine[t]] = "init"]
    /\ mine' = [mine EXCEPT ![t] = NoConn]
    /\ result' = [result EXCEPT ![t] = "nil"]
    /\ pc' = [pc EXCEPT ![t] = AfterStart(t)]
    /\ UNCHANGED <<conn, connOptions, config, openHandles, nOpened,
                   loopConn, crash>>
    /\ UNCHANGED <<hsVars, decVars>>
    /\ UNCHANGED <<trackVars, busVars, resetPending, readVars>>

\* ------------------------------------------------------------------- Stop
StopCheck(t) ==
    /\ Alive
    /\ AtStop(t)
    /\ pc' = [pc EXCEPT ![t] = IF connected THEN "stop_send" ELSE AfterStop(t)]
    /\ result' = [result EXCEPT ![t] = "none"]
    /\ UNCHANGED <<mine, connected, conn, connOptions, config, openHandles,
                   nOpened, loopPc, loopConn, crash>>
    /\ UNCHANGED <<hsVars, decVars>>
    /\ UNCHANGED <<trackVars, busVars, resetPending, readVars>>

\* sio.stopChannel <- true, received by a read loop waiting in its select
\* (a loop inside the broadcast of a frame is not in its select)
StopSend(t, l) ==
    /\ Alive
    /\ pc[t] = "stop_send"
    /\ loopPc[l] = "select"
    /\ bcast = <<>>
    /\ loopPc' = [loopPc EXCEPT ![l] = "closing"]
    /\ pc' = [pc EXCEPT ![t] = AfterStop(t)]
    /\ UNCHANGED <<result, mine, connected, conn, connOptions, config,
                   openHandles, nOpened, loopConn, crash>>
    /\ UNCHANGED <<hsVars, decVars>>
    /\ UNCHANGED <<trackVars, busVars, resetPending, readVars>>

\* -------------------------------------------------------------- read loop
\* connReader := bufio.NewReader(sio.conn); the reader goroutine starts
LoopInit(l) ==
    /\ Alive
    /\ loopPc[l] = "init"
    /\ IF conn = NoConn
         THEN /\ crash' = "nil_read"
              /\ UNCHANGED <<loopPc, loopConn>>
         ELSE /\ loopConn' = [loopConn EXCEPT ![l] = conn]
              /\ loopPc' = [loopPc EXCEPT ![l] = "select"]
              /\ UNCHANGED crash
    /\ UNCHANGED <<pc, result, mine, connected, conn, connOptions, config,
                   openHandles, nOpened>>
    /\ UNCHANGED <<hsVars, decVars>>
    /\ UNCHANGED <<trackVars, busVars, resetPending, readVars>>

\* case <-sio.stopChannel: sio.close(namedLogger); the for loop then goes on
LoopClose(l) ==
    /\ Alive
    /\ loopPc[l] = "closing"
    /\ IF conn = NoConn
         THEN /\ crash' = "nil_close"
              /\ UNCHANGED <<conn, connected, openHandles, loopPc>>
         ELSE /\ openHandles' = openHandles \ {conn}
              /\ conn' = NoConn
              /\ connected' = FALSE
              /\ loopPc' = [loopPc EXCEPT ![l] = "select"]
              /\ UNCHANGED crash
    /\ UNCHANGED <<pc, result, mine, connOptions, config, nOpened, loopConn>>
    /\ UNCHANGED <<hsVars, decVars>>
    /\ UNCHANGED <<trackVars, busVars, resetPending, readVars>>

\* case bytes := <-bytesChannel: a unit read from the loop's own handle
LoopReceive(l) ==
    /\ Alive
    /\ loopPc[l] = "select"
    /\ loopConn[l] \in openHandles
    /\ loopPc' = [loopPc EXCEPT ![l] = "handling"]
    /\ UNCHANGED <<pc, result, mine, connected, conn, connOptions, config,
                   openHandles, nOpened, loopConn, crash>>
    /\ UNCHANGED <<hsVars, decVars>>
    /\ UNCHANGED <<trackVars, busVars, resetPending, readVars>>

LoopHandled(l) ==
    /\ Alive
    /\ loopPc[l] = "handling"
    /\ loopPc' = [loopPc EXCEPT ![l] = "select"]
    /\ UNCHANGED <<pc, result, mine, connected, conn, connOptions, config,
                   openHandles, nOpened, loopConn, crash>>
    /\ UNCHANGED <<hsVars, decVars>>
    /\ UNCHANGED <<trackVars, busVars, resetPending, readVars>>

\* ------------------------------------------------------------- supervisor
\* case <-configReloadedChannel, the configuration holding p by then
ConfigReload(p) ==
    /\ Alive
    /\ pc["sup"] = "watch"
    /\ config' = p
    /\ pc' = [pc EXCEPT !["sup"] = "sup_cmp"]
    /\ UNCHANGED <<result, mine, connected, conn, connOptions, openHandles,
                   nOpened, loopPc, loopConn, crash>>
    /\ UNCHANGED <<hsVars, decVars>>
    /\ resetPending' = TRUE
    /\ UNCHANGED <<trackVars, busVars, readVars>>

\* if the connection parameters changed: Stop(), <-time.After(stopDelay),
\* Start(); the delay only lets the other goroutines run
SupCompare ==
    /\ Alive
    /\ pc["sup"] = "sup_cmp"
    /\ pc' = [pc EXCEPT !["sup"] =
                IF config # connOptions THEN "stop_check" ELSE "watch"]
    /\ UNCHANGED <<result, mine, connected, conn, connOptions, config,
                   openHandles, nOpened, loopPc, loopConn, crash>>
    /\ UNCHANGED <<hsVars, decVars>>
    /\ UNCHANGED <<trackVars, busVars, resetPending, readVars>>

\* ------------------------------------------- Start, handshake variant
\* the caller of the handshake on handle h is waiting in performHandshake's
\* select
Waiting(h) == \E t \in Tasks : pc[t] = "hs_wait" /\ mine[t] = h

\* the locals of a Start() end with the call
ForgetCall(t) ==
    /\ mine' = [mine EXCEPT ![t] = NoConn]
    /\ elapsed' = [elapsed EXCEPT ![t] = 0]
    /\ buf' = [buf EXCEPT ![t] = 0]
    /\ ackWrites' = [ackWrites EXCEPT ![t] = 0]
    /\ hsOutcome' = [hsOutcome EXCEPT ![t] = "none"]

\* sio.connected = true, then performInitializationSequence -> performHandshake:
\* flush, make the channels, start the handshake goroutine, wait in the select
StartConnectHS(t) ==
    /\ Alive
    /\ pc[t] = "start_conn"
    /\ connected' = TRUE
    /\ hsPc' = [hsPc EXCEPT ![mine[t]] = "first"]
    /\ pc' = [pc EXCEPT ![t] = "hs_wait"]
    /\ UNCHANGED <<result, mine, conn, connOptions, config, openHandles,
                   nOpened, loopPc, loopConn, crash>>
    /\ UNCHANGED <<tickPending, elapsed, buf, ackWrites, hsOutcome,
                   initOk, decVars>>
    /\ UNCHANGED <<trackVars, busVars, resetPending, readVars>>

\* time passes by one retry interval: the ticker of a handshake goroutine
\* that has not returned delivers a tick, and its caller's timeout draws
\* nearer
Tick(h) ==
    /\ Alive
    /\ hsPc[h] \in {"first", "loop", "senddone", "senderr"}
    /\ IF Waiting(h)
         THEN /\ \/ ~tickPending[h]
                 \/ \E t \in Tasks : mine[t] = h /\ elapsed[t] < handshakeTimeout
              /\ elapsed' = [t \in Tasks |->
                     IF mine[t] # h THEN elapsed[t]
                     ELSE IF elapsed[t] + handshakeRetryInterval > handshakeTimeout
                       THEN handshakeTimeout
                       ELSE elapsed[t] + handshakeRetryInterval]
         ELSE /\ ~tickPending[h]
              /\ UNCHANGED elapsed
    /\ tickPending' = [tickPending EXCEPT ![h] = TRUE]
    /\ UNCHANGED <<linkVars, hsPc, buf, ackWrites, hsOutcome,
                   initOk, decVars>>
    /\ UNCHANGED <<trackVars, busVars, resetPending, readVars>>

\* goroutine: sio.conn.Write([]byte{handshakeChar}), first send
HsSendFirst(h, ok) ==
    /\ Alive
    /\ hsPc[h] = "first"
    /\ IF conn = NoConn
         THEN /\ crash' = "nil_write"
              /\ UNCHANGED hsPc
         ELSE /\ hsPc' = [hsPc EXCEPT ![h] = IF ok THEN "loop" ELSE "senderr"]
              /\ UNCHANGED crash
    /\ UNCHANGED <<pc, result, mine, connected, conn, connOptions, config,
                   openHandles, nOpened, loopPc, loopConn>>
    /\ UNCHANGED <<tickPending, elapsed, buf, ackWrites,
                   hsOutcome, initOk, decVars>>
    /\ UNCHANGED <<trackVars, busVars, resetPending, readVars>>

\* goroutine: case <-retryTicker.C: resend the handshake marker
HsRetry(h, ok) ==
    /\ Alive
    /\ hsPc[h] = "loop"
    /\ tickPending[h]
    /\ tickPending' = [tickPending EXCEPT ![h] = FALSE]
    /\ IF conn = NoConn
         THEN /\ crash' = "nil_write"
              /\ UNCHANGED hsPc
         ELSE /\ hsPc' = [hsPc EXCEPT ![h] = IF ok THEN "loop" ELSE "senderr"]
              /\ UNCHANGED crash
    /\ UNCHANGED <<pc, result, mine, connected, conn, connOptions, config,
                   openHandles, nOpened, loopPc, loopConn>>
    /\ UNCHANGED <<elapsed, buf, ackWrites, hsOutcome, initOk,
                   decVars>>
    /\ UNCHANGED <<trackVars, busVars, resetPending, readVars>>

\* goroutine: default: n, err := sio.conn.Read(buf) with an error that is
\* not io.EOF: report it on errChan  (io.EOF, or n = 0: next iteration,
\* which changes nothing)
HsReadError(h) ==
    /\ Alive
    /\ hsPc[h] = "loop"
    /\ ~tickPending[h]
    /\ IF conn = NoConn
         THEN /\ crash' = "nil_read"
              /\ UNCHANGED hsPc
         ELSE /\ hsPc' = [hsPc EXCEPT ![h] = "senderr"]
              /\ UNCHANGED crash
    /\ UNCHANGED <<pc, result, mine, connected, conn, connOptions, config,
                   openHandles, nOpened, loopPc, loopConn>>
    /\ UNCHANGED <<tickPending, elapsed, buf, ackWrites,
                   hsOutcome, initOk, decVars>>
    /\ UNCHANGED <<trackVars, busVars, resetPending, readVars>>

\* a goroutine that writes no acknowledgement and takes any byte for the
\* end of the handshake
HsReadByteAnyEnds(h, b, ok) ==
    /\ Alive
    /\ hsPc[h] = "loop"
    /\ ~tickPending[h]
    /\ conn # NoConn
    /\ buf' = [t \in Tasks |-> IF mine[t] = h THEN b ELSE buf[t]]
    /\ hsPc' = [hsPc EXCEPT ![h] = "senddone"]
    /\ UNCHANGED <<linkVars, tickPending, elapsed, ackWrites,
                   hsOutcome, initOk, decVars>>
    /\ UNCHANGED <<trackVars, busVars, resetPending, readVars>>

\* goroutine: default: the read brought one byte into buf, switch buf[0]
\*   handshakeChar: write ackChar (ok or not), then handshakeDone <- true
\*   ackChar:       handshakeDone <- true
\*   anything else: next iteration
HsReadByte(h, b, ok) ==
    /\ Alive
    /\ hsPc[h] = "loop"
    /\ ~tickPending[h]
    /\ conn # NoConn
    /\ buf' = [t \in Tasks |-> IF mine[t] = h THEN b ELSE buf[t]]
    /\ IF b = handshakeChar
         THEN /\ hsPc' = [hsPc EXCEPT ![h] = IF ok THEN "senddone" ELSE "senderr"]
              /\ ackWrites' = [t \in Tasks |->
                     IF mine[t] = h /\ ok THEN ackWrites[t] + 1 ELSE ackWrites[t]]
         ELSE IF b = ackChar
         THEN /\ hsPc' = [hsPc EXCEPT ![h] = "senddone"]
              /\ UNCHANGED ackWrites
         ELSE UNCHANGED <<hsPc, ackWrites>>
    /\ UNCHANGED <<linkVars, tickPending, elapsed, hsOutcome, initOk,
                   decVars>>
    /\ UNCHANGED <<trackVars, busVars, resetPending, readVars>>

\* handshakeDone <- true meets the caller's case <-handshakeDone: return nil
HsDone(t, h) ==
    /\ Alive
    /\ pc[t] = "hs_wait"
    /\ mine[t] = h
    /\ hsPc[h] = "senddone"
    /\ hsPc' = [hsPc EXCEPT ![h] = "exit"]
    /\ hsOutcome' = [hsOutcome EXCEPT ![t] = "ok"]
    /\ pc' = [pc EXCEPT ![t] = "init_write"]
    /\ UNCHANGED <<result, mine, connected, conn, connOptions, config,
                   openHandles, nOpened, loopPc, loopConn, crash>>
    /\ UNCHANGED <<tickPending, elapsed, buf, ackWrites, initOk,
                   decVars>>
    /\ UNCHANGED <<trackVars, busVars, resetPending, readVars>>

\* errChan <- err meets the caller's case err := <-errChan: return err
HsErr(t, h) ==
    /\ Alive
    /\ pc[t] = "hs_wait"
    /\ mine[t] = h
    /\ hsPc[h] = "senderr"
    /\ hsPc' = [hsPc EXCEPT ![h] = "exit"]
    /\ hsOutcome' = [hsOutcome EXCEPT ![t] = "HandshakeIOError"]
    /\ result' = [result EXCEPT ![t] = "HandshakeIOError"]
    /\ pc' = [pc EXCEPT ![t] = "init_fail"]
    /\ UNCHANGED <<mine, connected, conn, connOptions, config,
                   openHandles, nOpened, loopPc, loopConn, crash>>
    /\ UNCHANGED <<tickPending, elapsed, buf, ackWrites, initOk,
                   decVars>>
    /\ UNCHANGED <<trackVars, busVars, resetPending, readVars>>

\* a timeout case that reports success
HsTimeoutAsSuccess(t) ==
    /\ Alive
    /\ pc[t] = "hs_wait"
    /\ elapsed[t] >= handshakeTimeout
    /\ hsOutcome' = [hsOutcome EXCEPT ![t] = "ok"]
    /\ pc' = [pc EXCEPT ![t] = "init_write"]
    /\ UNCHANGED <<result, mine, connected, conn, connOptions, config,
                   openHandles, nOpened, loopPc, loopConn, crash>>
    /\ UNCHANGED <<hsPc, tickPending, elapsed, buf, ackWrites, initOk,
                   decVars>>
    /\ UNCHANGED <<trackVars, busVars, resetPending, readVars>>

\* case <-time.After(handshakeTimeout): return the timeout error
HsTimeout(t) ==
    /\ Alive
    /\ pc[t] = "hs_wait"
    /\ elapsed[t] >= handshakeTimeout
    /\ hsOutcome' = [hsOutcome EXCEPT ![t] = "HandshakeTimeout"]
    /\ result' = [result EXCEPT ![t] = "HandshakeTimeout"]
    /\ pc' = [pc EXCEPT ![t] = "init_fail"]
    /\ UNCHANGED <<mine, connected, conn, connOptions, config,
                   openHandles, nOpened, loopPc, loopConn, crash>>
    /\ UNCHANGED <<hsPc, tickPending, elapsed, buf, ackWrites, initOk,
                   decVars>>
    /\ UNCHANGED <<trackVars, busVars, resetPending, readVars>>

\* performInitializationSequence: sio.conn.Write(initData)
InitWrite(t, ok) ==
    /\ Alive
    /\ pc[t] = "init_write"
    /\ IF conn = NoConn
         THEN /\ crash' = "nil_write"
              /\ UNCHANGED <<pc, result>>
         ELSE /\ pc' = [pc EXCEPT ![t] = IF ok THEN "init_read" ELSE "init_fail"]
              /\ result' = [result EXCEPT ![t] =
                              IF ok THEN @ ELSE "InitializationFailed"]
              /\ UNCHANGED crash
    /\ UNCHANGED <<mine, connected, conn, connOptions, config,
                   openHandles, nOpened, loopPc, loopConn>>
    /\ UNCHANGED <<hsVars, decVars>>
    /\ UNCHANGED <<trackVars, busVars, resetPending, readVars>>

\* performInitializationSequence: read one byte and compare it with ackChar;
\* b = -1 stands for a failed read
InitRead(t, b) ==
    /\ Alive
    /\ pc[t] = "init_read"
    /\ IF conn = NoConn
         THEN /\ crash' = "nil_read"
              /\ UNCHANGED <<pc, result, initOk>>
         ELSE /\ UNCHANGED crash
              /\ IF b = ackChar
                   THEN /\ pc' = [pc EXCEPT ![t] = "start_go"]
                        /\ initOk' = [initOk EXCEPT ![mine[t]] = TRUE]
                        /\ UNCHANGED result
                   ELSE /\ pc' = [pc EXCEPT ![t] = "init_fail"]
                        /\ result' = [result EXCEPT ![t] =
                              IF b = -1 THEN "InitializationFailed"
                                        ELSE "InvalidAck"]
                        /\ UNCHANGED initOk
    /\ UNCHANGED <<mine, connected, conn, connOptions, config,
                   openHandles, nOpened, loopPc, loopConn>>
    /\ UNCHANGED <<hsPc, tickPending, elapsed, buf, ackWrites,
                   hsOutcome, decVars>>
    /\ UNCHANGED <<trackVars, busVars, resetPending, readVars>>

\* a failure path that returns the error without closing the link
StartInitFailNoClose(t) ==
    /\ Alive
    /\ pc[t] = "init_fail"
    /\ ForgetCall(t)
    /\ pc' = [pc EXCEPT ![t] = AfterStart(t)]
    /\ UNCHANGED <<result, connected, conn, connOptions, config, openHandles,
                   nOpened, loopPc, loopConn, crash>>
    /\ UNCHANGED <<hsPc, tickPending, initOk, decVars>>
    /\ UNCHANGED <<trackVars, busVars, resetPending, readVars>>

\* if err := sio.performInitializationSequence(); err != nil:
\*     sio.close(namedLogger); return the error
StartInitFail(t) ==
    /\ Alive
    /\ pc[t] = "init_fail"
    /\ IF conn = NoConn
         THEN /\ crash' = "nil_close"
              /\ UNCHANGED <<conn, connected, openHandles, pc, mine, elapsed,
                             buf, ackWrites, hsOutcome>>
         ELSE /\ openHandles' = openHandles \ {conn}
              /\ conn' = NoConn
              /\ connected' = FALSE
              /\ ForgetCall(t)
              /\ pc' = [pc EXCEPT ![t] = AfterStart(t)]
              /\ UNCHANGED crash
    /\ UNCHANGED <<result, connOptions, config, nOpened, loopPc, loopConn>>
    /\ UNCHANGED <<hsPc, tickPending, initOk, decVars>>
    /\ UNCHANGED <<trackVars, busVars, resetPending, readVars>>

\* initialization succeeded: go func() {read loop}(), return nil
StartSpawnHS(t) ==
    /\ Alive
    /\ pc[t] = "start_go"
    /\ loopPc' = [loopPc EXCEPT ![mine[t]] = "init"]
    /\ ForgetCall(t)
    /\ result' = [result EXCEPT ![t] = "nil"]
    /\ pc' = [pc EXCEPT ![t] = AfterStart(t)]
    /\ UNCHANGED <<connected, conn, connOptions, config, openHandles, nOpened,
                   loopConn, crash>>
    /\ UNCHANGED <<hsPc, tickPending, initOk, decVars>>
    /\ UNCHANGED <<trackVars, busVars, resetPending, readVars>>

\* ---------------------------------------------------------------- decoder
\* bitwise operators on unsigned integers, as Go's & and | compute them
RECURSIVE BitAnd(_, _)
BitAnd(a, b) ==
    IF a = 0 \/ b = 0 THEN 0
    ELSE (a % 2) * (b % 2) + 2 * BitAnd(a \div 2, b \div 2)

RECURSIVE BitOr(_, _)
BitOr(a, b) ==
    IF a = 0 THEN b
    ELSE IF b = 0 THEN a
    ELSE (IF a % 2 = 1 \/ b % 2 = 1 THEN 1 ELSE 0)
         + 2 * BitOr(a \div 2, b \div 2)

\* uint16(x) and int16(x) conversions
Uint16(x) == x % 65536
Int16(x) == IF Uint16(x) >= 32768 THEN Uint16(x) - 65536 ELSE Uint16(x)

\* a decoder that takes bits 0-10 as an unsigned magnitude
DecodeWordUnsigned(hi, lo) ==
    LET packed == BitOr(Uint16(hi * 256), lo)
    IN  [ToggleMute |-> BitAnd(packed \div 2048, 1) # 0,
         Value |-> BitAnd(packed, 2047)]

\* packed := uint16(bytes[i])<<8 | uint16(bytes[i+1]); ToggleMute is
\* (packed>>11)&0x01 != 0; rawValue := packed & 0x07FF; if rawValue&0x0400 != 0
\* the value is int(int16(rawValue | 0xF800)), else int(rawValue)
DecodeWord(hi, lo) ==
    LET packed == BitOr(Uint16(hi * 256), lo)
        rawValue == BitAnd(packed, 2047)
    IN  [ToggleMute |-> BitAnd(packed \div 2048, 1) # 0,
         Value |-> IF BitAnd(rawValue, 1024) # 0
                     THEN Int16(BitOr(rawValue, 63488))
                     ELSE rawValue]

\* for i := 0; i < len(bytes); i += 2 { ... bytes[i], bytes[i+1] ... }
\* (indices here start at 1); the readings decoded before the loop ends or
\* before bytes[i+1] is out of range
RECURSIVE ReconstructFrom(_, _)
ReconstructFrom(bytes, i) ==
    IF i + 1 > Len(bytes) THEN <<>>
    ELSE <<DecodeWord(bytes[i], bytes[i + 1])>> \o ReconstructFrom(bytes, i + 2)

\* handleBytes, its reconstruction of the readings out of one unit
HandleBytesReconstruct ==
    /\ Alive
    /\ unit # <<>>
    /\ data = <<>>
    /\ IF Len(unit) % 2 # 0
         THEN /\ crash' = "index_out_of_range"
              /\ UNCHANGED data
         ELSE /\ data' = ReconstructFrom(unit, 1)
              /\ UNCHANGED crash
    /\ UNCHANGED <<pc, result, mine, connected, conn, connOptions, config,
                   openHandles, nOpened, loopPc, loopConn>>
    /\ UNCHANGED <<hsVars, unit>>
    /\ UNCHANGED <<trackVars, busVars, resetPending, readVars>>

\* the unit has been dealt with; the reader hands over the next one
NextUnit(u) ==
    /\ Alive
    /\ data # <<>>
    /\ unit' = u
    /\ data' = <<>>
    /\ UNCHANGED <<linkVars, hsVars>>
    /\ UNCHANGED <<trackVars, busVars, resetPending, readVars>>

\* ---------------------------------------------------------- state tracker
\* values are kept in hundredths: 100 stands for 1.0, Sentinel for -1.0
Sentinel == -100
FullScale == 1023

\* deej.config as the tracker reads it: InvertSliders, AdditiveIndices
\* (slider indices count from 0) and the noise threshold in hundredths
PlainSettings == [InvertSliders |-> FALSE, AdditiveIndices |-> {}, Noise |-> 1]
Settings ==
    {PlainSettings,
     [InvertSliders |-> FALSE, AdditiveIndices |-> {}, Noise |-> 3],
     [InvertSliders |-> TRUE, AdditiveIndices |-> {}, Noise |-> 1],
     [InvertSliders |-> FALSE, AdditiveIndices |-> {1}, Noise |-> 1],
     [InvertSliders |-> TRUE, AdditiveIndices |-> {1}, Noise |-> 1]}
\* volumes the session map may hold for a slider, in hundredths
VolSamples == {0, 60, 100}

\* lines that match expectedLinePattern (fields of one to four digits), as
\* the numbers of their fields
LineFrames ==
    {<<0>>, <<20>>, <<1023>>, <<4558>>,
     <<0, 0>>, <<20, 0>>, <<1023, 20>>, <<20, 512>>, <<0, 2046>>,
     <<0, 4558>>, <<4558, 925>>, <<4558, 925, 41>>, <<0, 20, 1023>>}
\* binary units: 0x0000, 0x0014 (20), 0x03FF (1023), 0x0401 (-1023),
\* 0x0200 (512), 0x0600 (-512), 0x0800 (toggle), 0x0814 (toggle, 20); and two
\* units of odd length, <<0>> and <<0, 20, 3>>
BinaryUnits ==
    {<<0>>, <<0, 20, 3>>,
     <<0, 0>>, <<0, 20>>, <<4, 1>>, <<8, 0>>, <<8, 20>>,
     <<0, 0, 0, 0>>, <<0, 20, 0, 0>>, <<3, 255, 0, 20>>, <<0, 20, 2, 0>>,
     <<0, 20, 6, 0>>, <<0, 20, 8, 0>>, <<8, 20, 0, 0>>,
     <<0, 0, 0, 20, 3, 255>>}

Abs(x) == IF x < 0 THEN -x ELSE x

\* p / q rounded to the nearest integer (q > 0)
RoundDiv(p, q) ==
    IF p >= 0 THEN (2 * p + q) \div (2 * q)
    ELSE -((2 * (-p) + q) \div (2 * q))

\* util.NormalizeScalar of num/den: two decimals, as hundredths
NormalizeScalar(num, den) == RoundDiv(num * 100, den)

\* util.SignificantlyDifferent(old, new, noise level)
SignificantlyDifferent(old, new, noise) == Abs(new - old) > noise

\* slices.Contains(sio.deej.config.AdditiveIndices, sliderIdx), which only
\* handleBytes asks
Additive(sliderIdx) ==
    variant = "binary" /\ sliderIdx \in settings.AdditiveIndices

\* sessions.getCurrentVolume: some volume in [0, 1] for each additive slider
\* (0 stands for the sliders it is not called for)
CurrentVolumes(n) ==
    {vs \in [1..n -> VolSamples] :
        \A i \in 1..n : ~Additive(i - 1) => vs[i] = 0}

\* an additive sum that is left as it comes out
Clamp01None(v) == v

\* if finalVolume < 0 { = 0 }; if finalVolume > 1 { = 1 }
Clamp01(v) == IF v < 0 THEN 0 ELSE IF v > 100 THEN 100 ELSE v

\* the body of "for sliderIdx, arduinoData := range data" up to the
\* comparison: dirtyFloat, normalizedScalar, inversion, additive adjustment
FinalScalar(number, sliderIdx, vol) ==
    LET normalizedScalar == NormalizeScalar(number, FullScale)
        inverted == IF settings.InvertSliders THEN 100 - normalizedScalar
                    ELSE normalizedScalar
    IN  IF Additive(sliderIdx)
          THEN IF number # 0 THEN Clamp01(vol + inverted) ELSE vol
          ELSE inverted

\* the slider count update: a fresh array of the impossible value when the
\* count differs from lastKnownNumSliders
Reallocated(n) ==
    IF n # lastKnownNumSliders
      THEN [i \in 1..n |-> [Value |-> Sentinel, Mute |-> FALSE]]
      ELSE currentVolumeDatas

\* the first number of a frame is checked for correctness
Malformed(readings) == Len(readings) > 0 /\ readings[1].Value > FullScale

\* a comparison that lets every reading through
MovesAlways(current, normalizedScalar, reading, toggles) == TRUE

\* whether a slider creates a move event: significantlyDifferent ||
\* arduinoData.ToggleMute (the line variant has the comparison only)
Moves(current, normalizedScalar, reading, toggles) ==
    \/ SignificantlyDifferent(current.Value, normalizedScalar, settings.Noise)
    \/ (toggles /\ reading.ToggleMute)

\* the move events of sliders i.. of the frame, in the order of the loop;
\* final[i] is the slider's normalizedScalar, moves[i] whether it moves
RECURSIVE EventsFrom(_, _, _, _)
EventsFrom(readings, final, moves, i) ==
    IF i > Len(readings) THEN <<>>
    ELSE (IF moves[i]
            THEN <<[SliderID |-> i - 1,
                    PercentValue |-> final[i],
                    ToggleMute |-> readings[i].ToggleMute]>>
            ELSE <<>>)
         \o EventsFrom(readings, final, moves, i + 1)

\* an update that saves the value and leaves Mute as it is
StoredNoFlip(current, normalizedScalar, toggles) ==
    [Value |-> normalizedScalar, Mute |-> current.Mute]

\* the update of a slider that moves: Value = normalizedScalar and, where
\* the saved data carry it, Mute = !Mute
Stored(current, normalizedScalar, toggles) ==
    [Value |-> normalizedScalar,
     Mute |-> IF toggles THEN ~current.Mute ELSE current.Mute]

\* handleBytes / handleLine from the slider count update on: the count, the
\* saved values, the events; then the first send of the broadcast, if any.
\* toggles: the binary variant, whose readings carry ToggleMute and whose
\* saved data carry Mute
TrackFrame(readings, vs, toggles) ==
    LET n == Len(readings)
        base == Reallocated(n)
        final == [i \in 1..n |-> FinalScalar(readings[i].Value, i - 1, vs[i])]
        moves == [i \in 1..n |->
                    Moves(base[i], final[i], readings[i], toggles)]
        events == EventsFrom(readings, final, moves, 1)
    IN  /\ lastKnownNumSliders' = n
        /\ resetSeen' = (resetSeen /\ Malformed(readings))
        /\ received' = [c \in DOMAIN received |-> <<>>]
        /\ IF Malformed(readings)
             THEN /\ currentVolumeDatas' = base
                  /\ sliderEvents' = <<>>
                  /\ cand' = <<>>
                  /\ vols' = <<>>
                  /\ bcast' = <<>>
             ELSE /\ currentVolumeDatas' =
                        [i \in 1..n |->
                            IF moves[i] THEN Stored(base[i], final[i], toggles)
                            ELSE base[i]]
                  /\ sliderEvents' = events
                  /\ cand' = final
                  /\ vols' = vs
                  /\ bcast' = IF Len(events) > 0 /\ sliderMoveConsumers > 0
                                THEN [c |-> 1, e |-> 1, n |-> sliderMoveConsumers]
                                ELSE <<>>

\* the engine right after NewSerialIO, as far as the tracker is concerned
InitTrack ==
    /\ lastKnownNumSliders = 0
    /\ currentVolumeDatas = <<>>
    /\ sliderEvents = <<>>
    /\ cand = <<>>
    /\ vols = <<>>
    /\ resetSeen = FALSE
    /\ resetPending = FALSE

\* sliderMoveConsumers: []chan SliderMoveEvent{}
InitBus ==
    /\ sliderMoveConsumers = 0
    /\ bcast = <<>>
    /\ received = <<>>

\* no frame reader is looked at: nothing on the wire, nothing read
InitReader ==
    /\ sent = <<>>
    /\ wire = <<>>
    /\ readerPc = "off"
    /\ chunk = <<>>
    /\ verbose = FALSE

\* a read loop that takes the next unit while a send is pending
LoopTakesUnitWhileBlocked ==
    \E l \in Handles :
        /\ loopPc[l] = "select"
        /\ loopConn[l] \in openHandles \/ readerPc = "send"

\* a read loop is in its select and is not blocked in the broadcast of an
\* earlier frame, and there is a unit for it: one its reader reads from the
\* open connection, or one its reader goroutine has read already and is
\* sending (the select asks nothing about the connection)
LoopTakesUnit ==
    /\ bcast = <<>>
    /\ \E l \in Handles :
          /\ loopPc[l] = "select"
          /\ loopConn[l] \in openHandles \/ readerPc = "send"

\* handleBytes(logger, bytes) with what getCurrentVolume returns per slider
HandleBytesOn(u, vs) ==
    /\ Alive
    /\ variant = "binary"
    /\ LoopTakesUnit
    /\ unit' = u
    /\ vs \in CurrentVolumes(Len(u) \div 2)
    /\ IF Len(u) % 2 # 0
         THEN /\ crash' = "index_out_of_range"
              /\ UNCHANGED <<data, lastKnownNumSliders, currentVolumeDatas,
                             sliderEvents, cand, vols, resetSeen, bcast,
                             received>>
         ELSE LET readings == ReconstructFrom(u, 1)
              IN  /\ data' = readings
                  /\ TrackFrame(readings, vs, TRUE)
                  /\ UNCHANGED crash
    /\ UNCHANGED <<pc, result, mine, connected, conn, connOptions, config,
                   openHandles, nOpened, loopPc, loopConn>>
    /\ UNCHANGED <<hsVars, variant, settings, sliderMoveConsumers,
                   resetPending>>

\* case bytes := <-bytesChannel: sio.handleBytes(namedLogger, bytes), for a
\* unit whose reading off the wire is not looked at
HandleBytes(u, vs) ==
    /\ HandleBytesOn(u, vs)
    /\ UNCHANGED readVars

\* what strconv.Atoi gives for the fields of a line that matched the pattern
LineReadings(f) == [i \in 1..Len(f) |-> [ToggleMute |-> FALSE, Value |-> f[i]]]

\* handleLine(logger, line) for a line that matches expectedLinePattern; the
\* line variant has no additive sliders and no ToggleMute
HandleLineOn(f) ==
    /\ Alive
    /\ variant = "line"
    /\ LoopTakesUnit
    /\ data' = LineReadings(f)
    /\ TrackFrame(LineReadings(f), [i \in 1..Len(f) |-> 0], FALSE)
    /\ UNCHANGED <<linkVars, hsVars, unit, variant, settings,
                   sliderMoveConsumers, resetPending>>

\* case line := <-lineChannel: sio.handleLine(namedLogger, line), for a line
\* whose reading off the wire is not looked at
HandleLine(f) ==
    /\ HandleLineOn(f)
    /\ UNCHANGED readVars

\* go func() { <-time.After(stopDelay); sio.lastKnownNumSliders = 0 }()
DelayedReset ==
    /\ Alive
    /\ resetPending
    /\ lastKnownNumSliders' = 0
    /\ resetPending' = FALSE
    /\ resetSeen' = TRUE
    /\ UNCHANGED <<linkVars, hsVars, decVars, busVars>>
    /\ UNCHANGED <<variant, settings, currentVolumeDatas, sliderEvents, cand,
                   vols, readVars>>

\* --------------------------------------------------------- frame reader
\* the delimiter of reader.ReadBytes('\n') and reader.ReadString('\n')
LF == 10
CR == 13
Pipe == 124
Digit0 == 48

\* a packing that leaves bit 11 clear
PackWordNoToggle(toggleMute, value) == BitAnd(Uint16(value), 2047)

\* firmware, binary: uint16_t packed = ((values[i].toggleMute & 0x01) << 11) |
\* ((uint16_t)values[i].value & 0x07FF)
PackWord(toggleMute, value) ==
    BitOr((IF toggleMute THEN 1 ELSE 0) * 2048, BitAnd(Uint16(value), 2047))

\* buf[idx++] = (packed >> 8) & 0xFF; buf[idx++] = packed & 0xFF; for every
\* values[i] from i on (indices here start at 1)
RECURSIVE PackFrom(_, _)
PackFrom(values, i) ==
    IF i > Len(values) THEN <<>>
    ELSE LET packed == PackWord(values[i].toggleMute, values[i].value)
         IN  <<(packed \div 256) % 256, packed % 256>> \o PackFrom(values, i + 1)

\* firmware: sendValues() packs values[] into the frame; the channel words of
\* the frame reach handleBytes as one unit
SendValues ==
    /\ Alive
    /\ sent # <<>>
    /\ unit = <<>>
    /\ unit' = PackFrom(sent, 1)
    /\ UNCHANGED <<linkVars, hsVars, data, trackVars, busVars, resetPending,
                   readVars>>

\* String(n) of a number n >= 0, as character codes
RECURSIVE Digits(_)
Digits(n) ==
    IF n < 10 THEN <<Digit0 + n>>
    ELSE Digits(n \div 10) \o <<Digit0 + (n % 10)>>

\* firmware, line: builtString += String(getValue(i)), "|" between the values
RECURSIVE BuiltString(_, _)
BuiltString(values, i) ==
    IF i > Len(values) THEN <<>>
    ELSE Digits(values[i].value)
         \o (IF i < Len(values) THEN <<Pipe>> ELSE <<>>)
         \o BuiltString(values, i + 1)

\* the bytes of one frame on the wire: in the binary format the channel
\* words and the line feed readBytes cuts at (sendValues of the firmware in
\* this file puts START_MARKER and END_MARKER around the words and no line
\* feed); in the line format Serial.println(builtString)
FrameOnWire(fmt, values) ==
    IF fmt = "binary" THEN PackFrom(values, 1) \o <<LF>>
    ELSE BuiltString(values, 1) \o <<CR, LF>>

\* strings.Split(line, "|"): the fields of s from position i on, cur being
\* the field under way
RECURSIVE SplitFrom(_, _, _)
SplitFrom(s, i, cur) ==
    IF i > Len(s) THEN <<cur>>
    ELSE IF s[i] = Pipe THEN <<cur>> \o SplitFrom(s, i + 1, <<>>)
    ELSE SplitFrom(s, i + 1, Append(cur, s[i]))

\* expectedLinePattern `^\d{1,4}(\|\d{1,4})*\r\n$`
MatchString(line) ==
    /\ Len(line) >= 3
    /\ line[Len(line) - 1] = CR
    /\ line[Len(line)] = LF
    /\ \A fld \in {SplitFrom(SubSeq(line, 1, Len(line) - 2), 1, <<>>)[k] :
                     k \in 1..Len(SplitFrom(SubSeq(line, 1, Len(line) - 2),
                                            1, <<>>))} :
          /\ Len(fld) \in 1..4
          /\ \A k \in 1..Len(fld) : fld[k] \in Digit0..(Digit0 + 9)

\* strconv.Atoi of a field of digits
RECURSIVE Atoi(_)
Atoi(fld) ==
    IF fld = <<>> THEN 0
    ELSE 10 * Atoi(SubSeq(fld, 1, Len(fld) - 1)) + (fld[Len(fld)] - Digit0)

\* strings.TrimSuffix(line, "\r\n"), strings.Split and strconv.Atoi
LineNumbers(line) ==
    LET flds == SplitFrom(SubSeq(line, 1, Len(line) - 2), 1, <<>>)
    IN  [k \in 1..Len(flds) |-> Atoi(flds[k])]

\* the position of the first line feed in s, 0 if there is none
FirstLF(s) ==
    IF \E k \in 1..Len(s) : s[k] = LF
        THEN CHOOSE k \in 1..Len(s) : s[k] = LF /\ \A j \in 1..(k - 1) : s[j] # LF
        ELSE 0

\* the connection the reader goroutine reads from has not been closed
ReaderOpen ==
    \E l \in Handles : loopPc[l] # "none" /\ loopConn[l] \in openHandles

\* bytes, err := reader.ReadBytes('\n') / line, err := reader.ReadString('\n')
\* with err == nil: everything up to and including the first line feed
ReaderRead ==
    /\ Alive
    /\ readerPc = "read"
    /\ ReaderOpen
    /\ FirstLF(wire) > 0
    /\ chunk' = SubSeq(wire, 1, FirstLF(wire))
    /\ wire' = SubSeq(wire, FirstLF(wire) + 1, Len(wire))
    /\ readerPc' = "send"
    /\ UNCHANGED <<linkVars, hsVars, decVars, trackVars, busVars, resetPending,
                   sent, verbose>>

\* the same read with err != nil: the stream fails before a line feed, the
\* bytes read until then are returned (none from a connection that has been
\* closed). readLine returns; readBytes returns
\* only inside `if sio.deej.Verbose()` and goes on to its send otherwise
ReaderReadError ==
    /\ Alive
    /\ readerPc = "read"
    /\ FirstLF(wire) = 0 \/ ~ReaderOpen
    /\ chunk' = IF ReaderOpen THEN wire ELSE <<>>
    /\ wire' = <<>>
    /\ readerPc' = IF variant = "line" \/ verbose THEN "ended" ELSE "send"
    /\ UNCHANGED <<linkVars, hsVars, decVars, trackVars, busVars, resetPending,
                   sent, verbose>>

\* ch <- bytes[:len(bytes)-1] / ch <- line, received by the read loop's
\* select, which handles the unit before it receives again
ReaderSend(vs) ==
    /\ Alive
    /\ readerPc = "send"
    /\ readerPc' = "read"
    /\ UNCHANGED <<sent, wire, chunk, verbose>>
    /\ IF variant = "binary" /\ chunk = <<>>
         THEN /\ vs = <<>>
              /\ crash' = "slice_bounds_out_of_range"
              /\ UNCHANGED <<pc, result, mine, connected, conn, connOptions,
                             config, openHandles, nOpened, loopPc, loopConn>>
              /\ UNCHANGED <<hsVars, unit, data, trackVars, busVars,
                             resetPending>>
         ELSE IF variant = "binary"
         THEN HandleBytesOn(SubSeq(chunk, 1, Len(chunk) - 1), vs)
         ELSE IF MatchString(chunk)
         THEN /\ vs = <<>>
              /\ HandleLineOn(LineNumbers(chunk))
         ELSE /\ vs = <<>>
              /\ LoopTakesUnit
              /\ UNCHANGED <<linkVars, hsVars, decVars, trackVars, busVars,
                             resetPending>>

\* ------------------------------------------------------------ event bus
\* SubscribeToSliderMoveEvents: ch := make(chan SliderEvent); append; a
\* broadcast that is under way ranges over the slice it started with
Subscribe ==
    /\ Alive
    /\ sliderMoveConsumers < MaxSubs
    /\ sliderMoveConsumers' = sliderMoveConsumers + 1
    /\ received' = Append(received, <<>>)
    /\ UNCHANGED <<linkVars, hsVars, decVars, trackVars, bcast, resetPending,
                   readVars>>

\* where the two broadcast loops stand after the send to consumer c of event
\* e went through; <<>> when they are over
AfterSend(b) ==
    IF b.e < Len(sliderEvents) THEN [b EXCEPT !.e = b.e + 1]
    ELSE IF b.c < b.n THEN [b EXCEPT !.c = b.c + 1, !.e = 1]
    ELSE <<>>

\* a broadcast that goes on to the next send without the consumer receiving
DeliverDropping ==
    /\ Alive
    /\ bcast # <<>>
    /\ bcast' = AfterSend(bcast)
    /\ UNCHANGED <<linkVars, hsVars, decVars, trackVars, sliderMoveConsumers,
                   received, resetPending, readVars>>

\* consumer <- moveEvent, met by the consumer's receive
Deliver ==
    /\ Alive
    /\ bcast # <<>>
    /\ received' = [received EXCEPT
                      ![bcast.c] = Append(@, sliderEvents[bcast.e])]
    /\ bcast' = AfterSend(bcast)
    /\ UNCHANGED <<linkVars, hsVars, decVars, trackVars, sliderMoveConsumers,
                   resetPending, readVars>>

\* ---------------------------------------------------------- specifications
\* the engine after NewSerialIO; the link specifications leave the settings
\* of the tracker alone
InitEngine ==
    /\ InitLink /\ InitHS /\ InitDec /\ InitTrack /\ InitBus /\ InitReader
    /\ settings = PlainSettings

Init == InitEngine /\ variant = "binary"

\* binary variant (pkg/deej/serial.go): application and supervisor
Next ==
    \/ \E t \in Tasks : StartCheck(t)
    \/ \E t \in Tasks : StartOptions(t)
    \/ \E t \in Tasks : StartOpenFail(t)
    \/ \E t \in Tasks : StartOpenOk(t)
    \/ \E t \in Tasks : StartConnect(t)
    \/ \E t \in Tasks : StopCheck(t)
    \/ \E t \in Tasks, l \in Handles : StopSend(t, l)
    \/ \E l \in Handles : LoopInit(l)
    \/ \E l \in Handles : LoopClose(l)
    \/ \E l \in Handles : LoopReceive(l)
    \/ \E l \in Handles : LoopHandled(l)
    \/ \E p \in Params : ConfigReload(p)
    \/ SupCompare
    \/ DelayedReset

Spec == Init /\ [][Next]_vars

\* handshake variant: the application's Start()/Stop() calls
NextHS ==
    \/ StartCheck("app")
    \/ StartOptions("app")
    \/ StartOpenFail("app")
    \/ StartOpenOk("app")
    \/ StartConnectHS("app")
    \/ \E h \in Handles : Tick(h)
    \/ \E h \in Handles, ok \in BOOLEAN : HsSendFirst(h, ok)
    \/ \E h \in Handles, ok \in BOOLEAN : HsRetry(h, ok)
    \/ \E h \in Handles : HsReadError(h)
    \/ \E h \in Handles, b \in RemoteBytes, ok \in BOOLEAN : HsReadByte(h, b, ok)
    \/ \E h \in Handles : HsDone("app", h)
    \/ \E h \in Handles : HsErr("app", h)
    \/ HsTimeout("app")
    \/ \E ok \in BOOLEAN : InitWrite("app", ok)
    \/ \E b \in RemoteBytes \cup {-1} : InitRead("app", b)
    \/ StartInitFail("app")
    \/ StartSpawnHS("app")
    \/ StopCheck("app")
    \/ \E l \in Handles : StopSend("app", l)
    \/ \E l \in Handles : LoopInit(l)
    \/ \E l \in Handles : LoopClose(l)
    \/ \E l \in Handles : LoopReceive(l)
    \/ \E l \in Handles : LoopHandled(l)

InitHSVariant == InitEngine /\ variant = "line"

SpecHS == InitHSVariant /\ [][NextHS]_vars

\* binary decoder on every unit of one channel word
InitDecode ==
    /\ InitLink
    /\ InitHS
    /\ InitTrack
    /\ InitBus
    /\ InitReader
    /\ variant = "binary"
    /\ settings = PlainSettings
    /\ unit \in [1..2 -> 0..255]
    /\ data = <<>>

NextDecode ==
    \/ HandleBytesReconstruct
    \/ \E u \in {<<0, 0>>, <<8, 0>>, <<7, 255>>, <<4, 0>>} : NextUnit(u)

SpecDecode == InitDecode /\ [][NextDecode]_vars

\* a session that Start() has brought up on the first handle: connected,
\* the read loop in its select
InitRunning ==
    /\ pc = [t \in Tasks |-> IF t = "app" THEN "idle" ELSE "watch"]
    /\ result = [t \in Tasks |-> IF t = "app" THEN "nil" ELSE "none"]
    /\ mine = [t \in Tasks |-> NoConn]
    /\ connected = TRUE
    /\ conn = 1
    /\ config \in Params
    /\ connOptions = config
    /\ openHandles = {1}
    /\ nOpened = 1
    /\ loopPc = [h \in Handles |-> IF h = 1 THEN "select" ELSE "none"]
    /\ loopConn = [h \in Handles |-> IF h = 1 THEN 1 ELSE NoConn]
    /\ crash = "none"
    /\ variant \in {"binary", "line"}
    /\ hsPc = [h \in Handles |->
                 IF h = 1 /\ variant = "line" THEN "exit" ELSE "none"]
    /\ tickPending = [h \in Handles |-> FALSE]
    /\ elapsed = [t \in Tasks |-> 0]
    /\ buf = [t \in Tasks |-> 0]
    /\ ackWrites = [t \in Tasks |-> 0]
    /\ hsOutcome = [t \in Tasks |-> "none"]
    /\ initOk = [h \in Handles |-> h = 1 /\ variant = "line"]
    /\ InitDec

\* the state tracker of a running session: frames arrive, the configuration
\* is reloaded with the connection parameters it had
InitTracker ==
    /\ InitRunning
    /\ InitTrack
    /\ InitBus
    /\ InitReader
    /\ settings \in Settings

\* what getCurrentVolume may return for the sliders of one frame
FrameVolumes ==
    UNION {{vs \in [1..(Len(u) \div 2) -> VolSamples] :
               \A i \in DOMAIN vs :
                  (\A st \in Settings : (i - 1) \notin st.AdditiveIndices)
                     => vs[i] = 0} : u \in BinaryUnits}

NextTrack ==
    \/ \E u \in BinaryUnits, vs \in FrameVolumes : HandleBytes(u, vs)
    \/ \E f \in LineFrames : HandleLine(f)
    \/ \E p \in {config} : ConfigReload(p)
    \/ SupCompare
    \/ DelayedReset

SpecTrack == InitTracker /\ [][NextTrack]_vars

\* the frame reader of a running session: the device has sent one frame of
\* at most MaxWords values, and the stream fails after some prefix of it (or
\* after all of it)
SentValues(fmt) ==
    IF fmt = "binary"
        THEN {[toggleMute |-> FALSE, value |-> 0],
              [toggleMute |-> FALSE, value |-> 10],
              [toggleMute |-> FALSE, value |-> 20],
              [toggleMute |-> TRUE, value |-> 512],
              [toggleMute |-> FALSE, value |-> -1]}
        ELSE {[toggleMute |-> FALSE, value |-> 0],
              [toggleMute |-> FALSE, value |-> 10],
              [toggleMute |-> FALSE, value |-> 1023]}

SentFrames(fmt) ==
    UNION {[1..n -> SentValues(fmt)] : n \in 1..MaxWords}

InitReading ==
    /\ InitRunning
    /\ InitTrack
    /\ InitBus
    /\ settings = PlainSettings
    /\ verbose \in BOOLEAN
    /\ sent \in SentFrames(variant)
    /\ \E k \in 0..Len(FrameOnWire(variant, sent)) :
          wire = SubSeq(FrameOnWire(variant, sent), 1, k)
    /\ readerPc = "read"
    /\ chunk = <<>>

NextRead ==
    \/ ReaderRead
    \/ ReaderReadError
    \/ \E vs \in {[i \in 1..n |-> 0] : n \in 0..MaxWords} : ReaderSend(vs)

SpecRead == InitReading /\ [][NextRead]_vars

\* a running session with subscribers is stopped by the application while
\* its reader goroutine reads the frame the device has sent
InitStopping ==
    /\ InitRunning
    /\ InitTrack
    /\ InitBus
    /\ settings = PlainSettings
    /\ verbose \in BOOLEAN
    /\ sent \in SentFrames(variant)
    /\ wire = FrameOnWire(variant, sent)
    /\ readerPc = "read"
    /\ chunk = <<>>

NextStop ==
    \/ StopCheck("app")
    \/ \E l \in Handles : StopSend("app", l)
    \/ \E l \in Handles : LoopClose(l)
    \/ ReaderRead
    \/ ReaderReadError
    \/ \E vs \in {[i \in 1..n |-> 0] : n \in 0..MaxWords} : ReaderSend(vs)
    \/ Subscribe
    \/ Deliver

SpecStop == InitStopping /\ [][NextStop]_vars

\* firmware packing against host decoding: one value of the firmware's range
\* with either toggle flag, packed by sendValues and decoded by handleBytes
InitPack ==
    /\ InitLink
    /\ InitHS
    /\ InitTrack
    /\ InitBus
    /\ InitDec
    /\ variant = "binary"
    /\ settings = PlainSettings
    /\ sent \in {<<[toggleMute |-> t, value |-> v]>> :
                    t \in BOOLEAN, v \in (0 - FullScale)..FullScale}
    /\ wire = <<>>
    /\ readerPc = "off"
    /\ chunk = <<>>
    /\ verbose = FALSE

NextPack ==
    \/ SendValues
    \/ HandleBytesReconstruct

SpecPack == InitPack /\ [][NextPack]_vars

\* the event bus of a running session: consumers subscribe, frames arrive,
\* consumers receive
InitBroadcast ==
    /\ InitRunning
    /\ InitTrack
    /\ InitBus
    /\ InitReader
    /\ settings = PlainSettings

NextBus ==
    \/ Subscribe
    \/ Deliver
    \/ \E u \in BinaryUnits, vs \in FrameVolumes : HandleBytes(u, vs)
    \/ \E f \in LineFrames : HandleLine(f)

SpecBus == InitBroadcast /\ [][NextBus]_vars

\* the supervisor of a running session (binary variant): configuration
\* reloads, and the Stop()/Start() calls they lead to
InitSupervised ==
    /\ InitRunning
    /\ variant = "binary"
    /\ InitTrack
    /\ InitBus
    /\ InitReader
    /\ settings = PlainSettings

NextSup ==
    \/ \E p \in Params : ConfigReload(p)
    \/ SupCompare
    \/ DelayedReset
    \/ StopCheck("sup")
    \/ \E l \in Handles : StopSend("sup", l)
    \/ StartCheck("sup")
    \/ StartOptions("sup")
    \/ StartOpenFail("sup")
    \/ StartOpenOk("sup")
    \/ StartConnect("sup")
    \/ \E l \in Handles : LoopInit(l)
    \/ \E l \in Handles : LoopClose(l)
    \/ \E l \in Handles : LoopReceive(l)
    \/ \E l \in Handles : LoopHandled(l)

SpecSup == InitSupervised /\ [][NextSup]_vars

\* the Go scheduler runs every runnable goroutine, and subscribers keep
\* consuming: a read loop that can take a step eventually takes it
SpecFair ==
    /\ Init
    /\ [][Next]_vars
    /\ WF_vars(DelayedReset)
    /\ \A l \in Handles : /\ WF_vars(LoopInit(l))
                          /\ WF_vars(LoopClose(l))
                          /\ WF_vars(LoopHandled(l))

\* handshake variant: the application's Start() while a configuration reload
\* makes the supervisor call Stop() (the Start() that follows the
\* supervisor's Stop() is not looked at)
NextHSStop ==
    \/ StartCheck("app")
    \/ StartOptions("app")
    \/ StartOpenFail("app")
    \/ StartOpenOk("app")
    \/ StartConnectHS("app")
    \/ \E h \in Handles : Tick(h)
    \/ \E h \in Handles, ok \in BOOLEAN : HsSendFirst(h, ok)
    \/ \E h \in Handles, ok \in BOOLEAN : HsRetry(h, ok)
    \/ \E h \in Handles : HsReadError(h)
    \/ \E h \in Handles, b \in RemoteBytes, ok \in BOOLEAN : HsReadByte(h, b, ok)
    \/ \E h \in Handles : HsDone("app", h)
    \/ \E h \in Handles : HsErr("app", h)
    \/ HsTimeout("app")
    \/ \E ok \in BOOLEAN : InitWrite("app", ok)
    \/ \E b \in RemoteBytes \cup {-1} : InitRead("app", b)
    \/ StartInitFail("app")
    \/ StartSpawnHS("app")
    \/ \E p \in Params : ConfigReload(p)
    \/ SupCompare
    \/ DelayedReset
    \/ StopCheck("sup")
    \/ \E l \in Handles : StopSend("sup", l)
    \/ \E l \in Handles : LoopInit(l)
    \/ \E l \in Handles : LoopClose(l)
    \/ \E l \in Handles : LoopReceive(l)
    \/ \E l \in Handles : LoopHandled(l)

\* the Go scheduler runs every runnable goroutine and time passes: every
\* step of the program that can be taken is taken eventually; the calls of
\* the application, the reloads and the arrival of frames are not forced
SpecHSStopFair ==
    /\ InitHSVariant
    /\ [][NextHSStop]_vars
    /\ WF_vars(StartOptions("app"))
    /\ WF_vars(StartOpenFail("app") \/ StartOpenOk("app"))
    /\ WF_vars(StartConnectHS("app"))
    /\ WF_vars(HsTimeout("app"))
    /\ WF_vars(\E ok \in BOOLEAN : InitWrite("app", ok))
    /\ WF_vars(\E b \in RemoteBytes \cup {-1} : InitRead("app", b))
    /\ WF_vars(StartInitFail("app"))
    /\ WF_vars(StartSpawnHS("app"))
    /\ WF_vars(SupCompare)
    /\ WF_vars(DelayedReset)
    /\ WF_vars(StopCheck("sup"))
    /\ \A h \in Handles :
          /\ WF_vars(Tick(h))
          /\ WF_vars(\E ok \in BOOLEAN : HsSendFirst(h, ok))
          /\ WF_vars(HsDone("app", h))
          /\ WF_vars(HsErr("app", h))
          /\ WF_vars(StopSend("sup", h))
          /\ WF_vars(LoopInit(h))
          /\ WF_vars(LoopClose(h))
          /\ WF_vars(LoopHandled(h))

\* ------------------------------------------------------------------ claims
StartErrors == {"HandshakeTimeout", "HandshakeIOError", "InitializationFailed",
                "InvalidAck"}
Marker(b) == b \in {handshakeChar, ackChar}

\* C1: a Start() that finds the engine connected never proceeds to open a
\* port: it returns AlreadyConnected, and that return changes neither the
\* stored handle, the open handles, the recorded connection parameters, the
\* connected flag nor the read loops.
C1_StartWhileConnectedRejected ==
    [][\A t \in Tasks :
         /\ ~(connected /\ pc[t] # "start_opts" /\ pc'[t] = "start_opts")
         /\ (result'[t] = "AlreadyConnected" /\ result[t] # "AlreadyConnected")
              => /\ connected
                 /\ pc'[t] = AfterStart(t)
                 /\ UNCHANGED <<conn, openHandles, nOpened, connOptions,
                                connected, loopPc, loopConn>>]_vars

C1_Witness ==
    \E t \in Tasks : /\ result[t] = "AlreadyConnected"
                     /\ connected
                     /\ conn \in openHandles
                     /\ loopPc[conn] = "select"

\* C2: in every reachable state at most one handle returned by serial.Open
\* is open, whatever the interleaving of the application's and the
\* supervisor's Start()/Stop() calls.
C2_AtMostOneOpenHandle == Cardinality(openHandles) <= 1

\* C3: Stop() is idempotent: further Stop() calls after the one that ends a
\* session are no-ops, so close() never runs on the released (nil) handle.
C3_StopIdempotent == crash # "nil_close"

\* a read loop goroutine that has been started and has not returned
LoopRunning(l) == loopPc[l] \in {"init", "select", "handling", "closing"}

\* C4: once a read loop has taken the stop signal of Stop(), that loop
\* eventually terminates with the link closed: handle released, connected
\* false (unless the process has gone down meanwhile).
C4_StopTerminatesReadLoop ==
    \A l \in Handles :
        (loopPc[l] = "closing")
            ~> ((~LoopRunning(l) /\ ~connected /\ conn = NoConn)
                \/ crash # "none")

\* C5: a Start() whose serial.Open fails returns OpenFailed with the engine
\* unconnected, having started no read loop and opened no handle; while that
\* is the caller's last result the engine stays unconnected, so its next
\* Start() passes the "already connected" test.
C5_OpenFailureLeavesUnconnected ==
    /\ [](\A t \in Tasks :
            (result[t] = "OpenFailed" /\ AtStart(t)) => ~connected)
    /\ [][\A t \in Tasks :
            /\ (pc[t] = "start_open" /\ pc'[t] = AfterStart(t))
                  => /\ result'[t] = "OpenFailed"
                     /\ ~connected'
                     /\ loopPc' = loopPc
                     /\ openHandles' = openHandles
                     /\ nOpened' = nOpened
            /\ (result[t] = "OpenFailed" /\ AtStart(t))
                  => result'[t] # "AlreadyConnected"]_vars

C5_Witness ==
    \E t \in Tasks : /\ result[t] = "OpenFailed"
                     /\ pc[t] = "start_opts"
                     /\ ~connected
                     /\ openHandles = {}

\* performHandshake of task t has returned
Returned(t) == hsOutcome[t] # "none"
\* ... and no write or read of its goroutine failed
NoIOError(t) ==
    /\ hsOutcome[t] # "HandshakeIOError"
    /\ mine[t] # NoConn => hsPc[mine[t]] # "senderr"

\* C6: performHandshake never returns success unless its goroutine read the
\* handshake marker or the acknowledgement marker; when it returns without
\* either marker read and without an I/O error, it returns HandshakeTimeout,
\* and that only once the 5 s ceiling has passed.
C6_TimeoutWithoutMarker ==
    \A t \in Tasks :
        /\ hsOutcome[t] = "ok" => Marker(buf[t])
        /\ (Returned(t) /\ ~Marker(buf[t]) /\ NoIOError(t))
              => hsOutcome[t] = "HandshakeTimeout"
        /\ hsOutcome[t] = "HandshakeTimeout" => elapsed[t] >= handshakeTimeout

C6_Witness ==
    \E t \in Tasks : /\ hsOutcome[t] = "HandshakeTimeout"
                     /\ buf[t] = 120
                     /\ hsPc[mine[t]] = "loop"
                     /\ elapsed[t] = handshakeTimeout

\* C7: once the handshake goroutine has read the handshake marker it has
\* written exactly one acknowledgement and declares the handshake done; once
\* it has read the acknowledgement marker it declares the handshake done at
\* once, with no acknowledgement written; a byte that is neither is ignored:
\* nothing is written for it and the handshake is not declared done.  The
\* caller that takes the declaration returns success, and success is
\* returned in no other way.
C7_MarkerCompletesHandshake ==
    \A t \in Tasks :
        mine[t] # NoConn =>
            /\ (buf[t] = handshakeChar /\ NoIOError(t))
                  => /\ ackWrites[t] = 1
                     /\ hsPc[mine[t]] \in {"senddone", "exit"}
            /\ buf[t] = ackChar
                  => /\ ackWrites[t] = 0
                     /\ hsPc[mine[t]] \in {"senddone", "exit"}
            /\ ~Marker(buf[t])
                  => /\ ackWrites[t] = 0
                     /\ hsPc[mine[t]] # "senddone"
                     /\ hsOutcome[t] # "ok"
            /\ (hsPc[mine[t]] = "exit" /\ Marker(buf[t]) /\ NoIOError(t))
                  => hsOutcome[t] = "ok"
            /\ hsOutcome[t] = "ok" => hsPc[mine[t]] = "exit"

C7_Witness ==
    \E t \in Tasks : /\ hsOutcome[t] = "ok"
                     /\ buf[t] = handshakeChar
                     /\ ackWrites[t] = 1
                     /\ pc[t] = "init_write"

\* C8: a Start() whose handshake or initialization exchange failed returns
\* an error with the link torn down: its handle closed, sio.conn nil,
\* connected false, and no read loop started for that handle.  Every failed
\* handshake leads to that path, and a read loop runs only on a handle whose
\* initialization succeeded.
C8_FailedInitTearsDown ==
    /\ [](\A t \in Tasks :
            /\ hsOutcome[t] \in {"HandshakeTimeout", "HandshakeIOError"}
                  => pc[t] = "init_fail"
            /\ pc[t] = "init_fail" => result[t] \in StartErrors
            /\ pc[t] = "start_go" => initOk[mine[t]])
    /\ [](\A l \in Handles : loopPc[l] # "none" => initOk[l])
    /\ [][\A t \in Tasks :
            (pc[t] = "init_fail" /\ pc'[t] # "init_fail")
               => /\ pc'[t] = AfterStart(t)
                  /\ result'[t] \in StartErrors
                  /\ mine[t] \notin openHandles'
                  /\ conn' = NoConn
                  /\ ~connected'
                  /\ loopPc' = loopPc
                  /\ loopPc[mine[t]] = "none"]_vars

C8_Witness ==
    \E t \in Tasks : /\ result[t] = "InvalidAck"
                     /\ pc[t] = AfterStart(t)
                     /\ nOpened = 1
                     /\ openHandles = {}
                     /\ conn = NoConn
                     /\ ~connected
                     /\ \A l \in Handles : loopPc[l] = "none"

\* C9: in the handshake variant no read loop runs (no frame is decoded, no
\* event delivered) on a handle before its handshake and initialization have
\* succeeded, and the engine is not connected, for Stop() and Start() to
\* see, before that either.
C9_ConnectedOnlyAfterInit ==
    /\ \A l \in Handles : loopPc[l] # "none" => initOk[l]
    /\ connected => (conn # NoConn /\ initOk[conn])

\* the 16-bit big-endian word of a two-byte unit
Word(u) == u[1] * 256 + u[2]
\* bit 11 of a word; bits 0-10 read as an 11-bit two's complement number
Bit11(w) == (w \div 2048) % 2 = 1
Signed11(w) == IF w % 2048 >= 1024 THEN (w % 2048) - 2048 ELSE w % 2048

\* C10, as stated: 0x0000 -> (false, 0); 0x0800 -> (true, 0);
\* 0x07FF -> value 1023; 0x0400 -> value -1024; in general toggleMute is
\* bit 11 and the value is bits 0-10, sign-extended when bit 10 is set.
C10_DecodeWordAsStated ==
    (Len(unit) = 2 /\ data # <<>>) =>
        /\ Len(data) = 1
        /\ Word(unit) = 0 => data[1] = [ToggleMute |-> FALSE, Value |-> 0]
        /\ Word(unit) = 2048 => data[1] = [ToggleMute |-> TRUE, Value |-> 0]
        /\ Word(unit) = 2047 => data[1].Value = 1023
        /\ Word(unit) = 1024 => data[1].Value = -1024
        /\ data[1].ToggleMute = Bit11(Word(unit))
        /\ data[1].Value = Signed11(Word(unit))

\* C10, amended: 0x0000 -> (false, 0); 0x0800 -> (true, 0); 0x07FF -> value
\* -1; 0x03FF -> value 1023; 0x0400 -> value -1024; in general toggleMute is
\* bit 11 and the value is bits 0-10, sign-extended when bit 10 is set.
C10_DecodeWord ==
    (Len(unit) = 2 /\ data # <<>>) =>
        /\ Len(data) = 1
        /\ Word(unit) = 0 => data[1] = [ToggleMute |-> FALSE, Value |-> 0]
        /\ Word(unit) = 2048 => data[1] = [ToggleMute |-> TRUE, Value |-> 0]
        /\ Word(unit) = 2047 => data[1].Value = -1
        /\ Word(unit) = 1023 => data[1].Value = 1023
        /\ Word(unit) = 1024 => data[1].Value = -1024
        /\ data[1].ToggleMute = Bit11(Word(unit))
        /\ data[1].Value = Signed11(Word(unit))

C10_Witness ==
    /\ unit = <<7, 255>>
    /\ data = <<[ToggleMute |-> FALSE, Value |-> -1]>>

\* a step in which the read loop is handed one binary unit
UnitTaken ==
    /\ variant = "binary"
    /\ \E u \in BinaryUnits \cap {unit'}, vs \in FrameVolumes : HandleBytes(u, vs)

\* a step in which the read loop handles one frame to the end
FrameHandled ==
    /\ crash' = "none"
    /\ \/ UnitTaken
       \/ /\ variant = "line"
          /\ \E f \in LineFrames : HandleLine(f)

\* the events name every slider 0..n-1 once, in this order
OneEventPerSlider(events, n) ==
    /\ Len(events) = n
    /\ \A i \in 1..n : events[i].SliderID = i - 1

\* C11: a frame whose slider count differs from lastKnownNumSliders, unless
\* dropped for its first value, produces exactly one event for every slider
\* 0..n-1 whatever the noise threshold; a dropped one leaves the new array at
\* the impossible value -1.0 with Mute false.
C11_CountChangeEmitsAll ==
    [][(FrameHandled /\ Len(data') # lastKnownNumSliders) =>
          IF Malformed(data')
            THEN \A i \in 1..Len(data') :
                    currentVolumeDatas'[i] = [Value |-> Sentinel, Mute |-> FALSE]
            ELSE OneEventPerSlider(sliderEvents', Len(data'))]_vars

\* C12: handling a frame whose first value exceeds 1023 emits no event and
\* leaves lastKnownNumSliders and all saved slider data as they were, also
\* when the frame's field count differs from lastKnownNumSliders.
C12_DroppedFrameChangesNothing ==
    [][(FrameHandled /\ Malformed(data')) =>
          /\ sliderEvents' = <<>>
          /\ lastKnownNumSliders' = lastKnownNumSliders
          /\ currentVolumeDatas' = currentVolumeDatas]_vars

\* the events hold one for slider id (ids count from 0)
HasEvent(events, id) == \E k \in 1..Len(events) : events[k].SliderID = id

\* the saved value slider i is compared with while the frame of the step is
\* handled: the one before the step, or -1.0 when the count changed
Baseline(i) ==
    IF Len(data') = lastKnownNumSliders THEN currentVolumeDatas[i]
    ELSE [Value |-> Sentinel, Mute |-> FALSE]

\* round(rawValue / 1023, 2) in hundredths, 1 minus that when inverted
Percent(rawValue) ==
    LET r == IF rawValue >= 0 THEN (200 * rawValue + 1023) \div 2046
             ELSE -((200 * (-rawValue) + 1023) \div 2046)
    IN  IF settings.InvertSliders THEN 100 - r ELSE r

\* C13: for a line frame that is not dropped, every event carries
\* round(rawValue/1023, 2) of its slider (1 minus that when sliders are
\* inverted), the saved value of a slider becomes that value exactly when the
\* slider has an event, and a slider whose value is closer to its saved value
\* than the noise threshold has no event.
C13_LineFrameEvents ==
    [][(variant = "line" /\ FrameHandled /\ ~Malformed(data')) =>
          /\ \A k \in 1..Len(sliderEvents') :
                sliderEvents'[k].PercentValue =
                    Percent(data'[sliderEvents'[k].SliderID + 1].Value)
          /\ \A i \in 1..Len(data') :
                /\ HasEvent(sliderEvents', i - 1) =>
                      currentVolumeDatas'[i].Value = Percent(data'[i].Value)
                /\ ~HasEvent(sliderEvents', i - 1) =>
                      currentVolumeDatas'[i].Value = Baseline(i).Value
                /\ Abs(Percent(data'[i].Value) - Baseline(i).Value)
                        < settings.Noise
                      => ~HasEvent(sliderEvents', i - 1)]_vars

\* a line frame with one slider inside the threshold and one that moved
C13_Witness ==
    /\ variant = "line"
    /\ settings.Noise = 3
    /\ data = LineReadings(<<20, 512>>)
    /\ sliderEvents = <<[SliderID |-> 1, PercentValue |-> 50,
                         ToggleMute |-> FALSE]>>
    /\ currentVolumeDatas[1].Value = 0
    /\ currentVolumeDatas[2].Value = 50

\* C14: every event's PercentValue lies in [0.0, 1.0] and every saved value
\* is -1.0 or lies in [0.0, 1.0], in both variants, with negative readings
\* and with inverted sliders.
C14_ValuesWithinUnitRange ==
    /\ \A k \in 1..Len(sliderEvents) :
          sliderEvents[k].PercentValue \in 0..100
    /\ \A i \in 1..Len(currentVolumeDatas) :
          currentVolumeDatas[i].Value \in {Sentinel} \cup 0..100

\* C15: for an additive slider a raw value of 0 makes the current volume of
\* its sessions the candidate, a nonzero raw value makes it that volume plus
\* the normalised (and, if configured, inverted) reading clamped to [0, 1];
\* the candidate meets the same threshold comparison as any other slider's.
C15_AdditiveCandidate ==
    [][(variant = "binary" /\ FrameHandled) =>
          \A i \in 1..Len(data') :
             (i - 1) \in settings.AdditiveIndices =>
                /\ data'[i].Value = 0 => cand'[i] = vols'[i]
                /\ data'[i].Value # 0 =>
                      LET sum == vols'[i] + Percent(data'[i].Value)
                      IN  cand'[i] = IF sum < 0 THEN 0
                                     ELSE IF sum > 100 THEN 100 ELSE sum
                /\ HasEvent(sliderEvents', i - 1) <=>
                      \/ SignificantlyDifferent(Baseline(i).Value, cand'[i],
                                                settings.Noise)
                      \/ data'[i].ToggleMute]_vars

\* an additive slider whose sum was clamped, and its event
C15_Witness ==
    /\ variant = "binary"
    /\ 1 \in settings.AdditiveIndices
    /\ Len(data) = 2
    /\ data[2].Value = 512
    /\ vols[2] = 60
    /\ cand[2] = 100
    /\ HasEvent(sliderEvents, 1)

\* C16: in the binary variant a reading with ToggleMute set has exactly one
\* event, carrying ToggleMute = true, also when its value is within the
\* noise threshold of the saved value, and handling it flips the slider's
\* saved Mute once.
C16_ToggleForcesEvent ==
    [][(variant = "binary" /\ FrameHandled) =>
          \A i \in 1..Len(data') :
             data'[i].ToggleMute =>
                /\ Cardinality({k \in 1..Len(sliderEvents') :
                                  sliderEvents'[k].SliderID = i - 1}) = 1
                /\ \A k \in 1..Len(sliderEvents') :
                      sliderEvents'[k].SliderID = i - 1 =>
                         sliderEvents'[k].ToggleMute
                /\ currentVolumeDatas'[i].Mute = ~Baseline(i).Mute]_vars

\* a toggle reading whose value equals the saved one, with its event
C16_Witness ==
    /\ variant = "binary"
    /\ unit = <<8, 0>>
    /\ lastKnownNumSliders = 1
    /\ sliderEvents = <<[SliderID |-> 0, PercentValue |-> 0,
                         ToggleMute |-> TRUE]>>
    /\ currentVolumeDatas = <<[Value |-> 0, Mute |-> FALSE]>>

\* what each consumer has received of the current frame while the broadcast
\* stands at b: all of it before consumer b.c, the events before b.e for
\* consumer b.c, nothing after it
ServedInOrder(b) ==
    \A c \in 1..sliderMoveConsumers :
       received[c] = IF c < b.c THEN sliderEvents
                     ELSE IF c = b.c THEN SubSeq(sliderEvents, 1, b.e - 1)
                     ELSE <<>>

\* C17: every event of a frame reaches every registered consumer exactly
\* once, consumers are served in the order they registered, each receives
\* the events by ascending slider index, and a frame's events have all been
\* received by all of them before the next frame's are sent.
C17_BroadcastInOrder ==
    /\ [](/\ \A k \in 1..Len(sliderEvents) :
                \A j \in 1..(k - 1) :
                    sliderEvents[j].SliderID < sliderEvents[k].SliderID
          /\ bcast # <<>> => ServedInOrder(bcast))
    /\ [][/\ FrameHandled =>
               /\ bcast = <<>>
               /\ (Len(sliderEvents') > 0 /\ sliderMoveConsumers > 0) =>
                     bcast' = [c |-> 1, e |-> 1, n |-> sliderMoveConsumers]
          /\ (bcast # <<>> /\ bcast' = <<>>) =>
               \A c \in 1..bcast.n : received'[c] = sliderEvents]_vars

\* two consumers have both received the two events of a frame
C17_Witness ==
    /\ bcast = <<>>
    /\ sliderMoveConsumers = 2
    /\ Len(sliderEvents) = 2
    /\ received = <<sliderEvents, sliderEvents>>

\* C18: while the consumer the broadcast is sending to does not receive, the
\* read loop stays in that send: no frame is handled, no other consumer
\* receives anything, and the broadcast moves on only by that consumer
\* receiving the pending event.
C18_BroadcastBlocks ==
    [][bcast # <<>> =>
          /\ ~FrameHandled
          /\ data' = data /\ sliderEvents' = sliderEvents
          /\ currentVolumeDatas' = currentVolumeDatas
          /\ \A c \in 1..sliderMoveConsumers :
                c # bcast.c => received'[c] = received[c]
          /\ \/ /\ bcast' = bcast
                /\ received'[bcast.c] = received[bcast.c]
             \/ /\ bcast' = AfterSend(bcast)
                /\ received'[bcast.c] =
                      Append(received[bcast.c], sliderEvents[bcast.e])]_vars

\* the broadcast stands at its second consumer, who has received nothing yet
C18_Witness ==
    /\ bcast # <<>>
    /\ bcast.c = 2
    /\ received[1] = sliderEvents
    /\ received[2] = <<>>

\* C19: on a notification with a port or baud other than the last-used ones
\* the supervisor calls Stop() and, when it has returned, Start(); a Start()
\* whose open succeeds leaves the engine connected with the new parameters
\* and no handle open but the new one.  On a notification with the last-used
\* port and baud it calls neither and the connection stays as it is.
C19_SupervisorRenewsConnection ==
    [][/\ pc["sup"] = "watch" => pc'["sup"] \in {"watch", "sup_cmp"}
       /\ (pc["sup"] = "sup_cmp" /\ config # connOptions) =>
             pc'["sup"] \in {"sup_cmp", "stop_check"}
       /\ (pc["sup"] = "sup_cmp" /\ config = connOptions) =>
             /\ pc'["sup"] \in {"sup_cmp", "watch"}
             /\ pc'["sup"] = "watch" =>
                   UNCHANGED <<connected, conn, connOptions, openHandles,
                               nOpened, loopPc, loopConn>>
       /\ pc["sup"] \in {"stop_check", "stop_send"} =>
             pc'["sup"] \in {pc["sup"], "stop_send", "start_check"}
       /\ (pc["sup"] = "start_conn" /\ pc'["sup"] # "start_conn") =>
             /\ pc'["sup"] = "watch"
             /\ result'["sup"] = "nil"
             /\ connected'
             /\ connOptions' = config'
             /\ conn' # NoConn
             /\ openHandles' = {conn'}]_vars

\* C20: after a configuration reload lastKnownNumSliders is set to zero, so
\* that the next non-empty frame handled in full after that has one event
\* for every slider, whatever the noise threshold.
C20_ResetForcesAllEvents ==
    /\ [][(resetPending /\ ~resetPending') => lastKnownNumSliders' = 0]_vars
    /\ [][(resetSeen /\ FrameHandled /\ Len(data') > 0 /\ ~Malformed(data'))
             => OneEventPerSlider(sliderEvents', Len(data'))]_vars

\* C21: a failed restart is not retried: the supervisor enters Start() only
\* out of the Stop() of a notification, enters that Stop() only out of the
\* comparison, and the comparison only on a notification; and serial.Open is
\* called only by a task inside its Start().
C21_OneStartPerNotification ==
    [][/\ (pc'["sup"] = "start_check" /\ pc["sup"] # "start_check") =>
             pc["sup"] \in {"stop_check", "stop_send"}
       /\ (pc'["sup"] = "stop_check" /\ pc["sup"] # "stop_check") =>
             pc["sup"] = "sup_cmp"
       /\ (pc'["sup"] = "sup_cmp" /\ pc["sup"] # "sup_cmp") =>
             pc["sup"] = "watch" /\ resetPending'
       /\ (\/ nOpened' # nOpened
           \/ \E t \in Tasks : result'[t] = "OpenFailed" /\ result[t] # "OpenFailed")
             => \E t \in Tasks :
                   /\ pc[t] = "start_open"
                   /\ pc'[t] \in {AfterStart(t), "start_conn"}]_vars

\* the supervisor's restart failed at the open and it waits for the next
\* notification
C21_Witness ==
    /\ pc["sup"] = "watch"
    /\ result["sup"] = "OpenFailed"
    /\ ~connected

\* C22: after a restart whose open failed, and while no connection is
\* active, a notification makes the supervisor go through Stop() and Start()
\* again: the parameters of the failed attempt do not count as last-used.
C22_FailedRestartRetriedOnNotification ==
    [][(/\ pc["sup"] = "sup_cmp"
        /\ pc'["sup"] # "sup_cmp"
        /\ result["sup"] = "OpenFailed"
        /\ ~connected) => pc'["sup"] = "stop_check"]_vars

\* C23: a binary unit of odd length is decoded over its maximal even prefix:
\* the step that takes it leaves one reading per complete pair of bytes, drops
\* the dangling last byte, and does not end the process with an out-of-range
\* access.
C23_OddUnitDecodedBestEffort ==
    [][(UnitTaken /\ Len(unit') % 2 = 1) =>
          /\ crash' = "none"
          /\ data' = ReconstructFrom(SubSeq(unit', 1, Len(unit') - 1), 1)]_vars

\* C24: a read error ends the frame reader: in both wire formats and whatever
\* the verbose setting, the step in which the read fails leaves the reader
\* terminated, with nothing left for it to send to the read loop.
C24_ReadErrorEndsReader ==
    [][(readerPc = "read" /\ FirstLF(wire) = 0 /\ readerPc' # "read")
          => readerPc' = "ended"]_vars

\* C25: binary format, a frame of N words followed by a line feed: the unit
\* the reader hands to the read loop is exactly the 2N bytes of the words, so
\* that N readings are decoded, also when a byte of a word equals the line
\* feed.
C25_LineFeedOnlyTerminates ==
    [][(/\ variant = "binary"
        /\ readerPc = "send"
        /\ chunk \o wire = FrameOnWire("binary", sent)
        /\ readerPc' = "read")
          => /\ crash' = "none"
             /\ unit' = PackFrom(sent, 1)
             /\ Len(data') = Len(sent)]_vars

\* C26: the goroutine of a handshake does not outlive the handshake: whenever
\* it has started and not returned, its performHandshake is still waiting for
\* it; once performHandshake has returned (success, timeout or I/O error) the
\* goroutine neither reads or writes the connection nor sits blocked on
\* handshakeDone or errChan.
C26_HandshakeTaskEndsWithHandshake ==
    \A h \in Handles : hsPc[h] \notin {"none", "exit"} => Waiting(h)

\* C27: at most one read loop is alive per engine: in every reachable state,
\* after any Start(), Stop() and supervisor restarts, at most one read loop
\* goroutine has been started and has not returned.
C27_AtMostOneReadLoop ==
    Cardinality({l \in Handles : LoopRunning(l)}) <= 1

\* C28: the read loop is the only writer of the tracker's state: every step
\* that changes lastKnownNumSliders or currentVolumeDatas is the read loop
\* handling a frame; the supervisor and its delayed reset write neither.
C28_OnlyReadLoopWritesTracker ==
    [][(\/ lastKnownNumSliders' # lastKnownNumSliders
        \/ currentVolumeDatas' # currentVolumeDatas) => FrameHandled]_vars

\* C29: for every value v in [-1023, 1023] and toggle flag t, decoding the
\* word the firmware packs as ((t & 1) << 11) | (v & 0x07FF) gives back
\* exactly toggleMute = t and value = v.
C29_PackDecodeRoundTrip ==
    (sent # <<>> /\ data # <<>>) =>
        data = [i \in 1..Len(sent) |->
                  [ToggleMute |-> sent[i].toggleMute, Value |-> sent[i].value]]

C29_Witness ==
    /\ sent = <<[toggleMute |-> TRUE, value |-> 0 - FullScale]>>
    /\ unit = <<12, 1>>
    /\ data = <<[ToggleMute |-> TRUE, Value |-> 0 - FullScale]>>

\* C30: in the binary variant a slider's saved Mute changes only when a
\* reading with ToggleMute set is handled for it (or the saved data are
\* reallocated): handling a reading with ToggleMute clear, also one whose
\* value moved and has an event, leaves the slider's Mute as it was.
C30_MuteChangesOnlyOnToggle ==
    [][(variant = "binary" /\ FrameHandled) =>
          \A i \in 1..Len(data') :
             ~data'[i].ToggleMute =>
                currentVolumeDatas'[i].Mute = Baseline(i).Mute]_vars

\* C31: once a Stop() of the session has taken effect (connection closed,
\* connected false) and no Start() has succeeded since, no frame read from
\* that session is decoded and no event reaches a subscriber: no step
\* changes the decoded readings or the events, or hands a subscriber one.
C31_NoFrameAfterStop ==
    [][(~connected /\ conn = NoConn) =>
          /\ data' = data
          /\ sliderEvents' = sliderEvents
          /\ \A c \in DOMAIN received :
                Len(received'[c]) <= Len(received[c])]_vars

\* C32: a Stop() always returns: a Stop() that has seen connected = true and
\* sends on stopChannel is eventually past the send, also when it is called
\* while a Start() is inside its handshake or initialization and that Start()
\* then fails (unless the process has gone down meanwhile).
C32_StopReturns ==
    \A t \in Tasks :
        (pc[t] = "stop_send") ~> (pc[t] # "stop_send" \/ crash # "none")

====
